---- MODULE Spec2Model ----
(***************************************************************************)
(* apitest: a declarative HTTP API test runner.                            *)
(*                                                                         *)
(* The model follows runRequests (the orchestrating loop) and request      *)
(* (substitute -> send -> check status -> check fields -> capture).        *)
(*                                                                         *)
(* Representation.  A Go string is a sequence of lexemes; a lexeme is a    *)
(* one-character string, except for the two lexemes of text/template that  *)
(* the model needs: a field action "{{.name}}" and an unterminated action  *)
(* "{{".  A dynamically typed Go value (interface{}) is a record           *)
(*   [t |-> type tag, n |-> number, s |-> string, b |-> boolean]           *)
(* with the tags "int" (a YAML integer), "float" (a JSON number, always    *)
(* float64 after json.Unmarshal), "str", "bool" and "nil".                 *)
(***************************************************************************)
EXTENDS Integers, Sequences, FiniteSets, TLC

\* ------------------------------------------------------------------ bounds

\* Longest request list of a test set.
MaxReqs == 2

\* ------------------------------------------------------------ Go values

IntV(k) == [t |-> "int", n |-> k, s |-> <<>>, b |-> FALSE]
FloatV(k) == [t |-> "float", n |-> k, s |-> <<>>, b |-> FALSE]
StrV(str) == [t |-> "str", n |-> 0, s |-> str, b |-> FALSE]
BoolV(x) == [t |-> "bool", n |-> 0, s |-> <<>>, b |-> x]
NilV == [t |-> "nil", n |-> 0, s |-> <<>>, b |-> FALSE]

Digit(d) == <<"0", "1", "2", "3", "4", "5", "6", "7", "8", "9">>[d + 1]

\* strconv.Itoa / %d: the decimal digits of a natural number.
RECURSIVE Decimal(_)
Decimal(k) == IF k < 10 THEN <<Digit(k)>> ELSE Decimal(k \div 10) \o <<Digit(k % 10)>>

RECURSIVE StripZeros(_)
StripZeros(ds) ==
    IF Len(ds) > 1 /\ ds[Len(ds)] = "0" THEN StripZeros(SubSeq(ds, 1, Len(ds) - 1)) ELSE ds

\* fmt's %v of a float64 holding a natural number: strconv 'g' with the
\* shortest precision.  The exponent form is used when the decimal exponent
\* is >= 6, so 1000000 prints as 1e+06 and 1234567 as 1.234567e+06.
FormatFloat(k) ==
    LET ds == Decimal(k)
        exp == Len(ds) - 1
        mant == StripZeros(ds)
        frac == IF Len(mant) > 1 THEN <<".">> \o SubSeq(mant, 2, Len(mant)) ELSE <<>>
        e2 == IF exp < 10 THEN <<"0">> \o Decimal(exp) ELSE Decimal(exp)
    IN  IF exp < 6 THEN ds ELSE <<mant[1]>> \o frac \o <<"e", "+">> \o e2

\* fmt.Sprintf("%v", v).  A JSON object (tag "obj", the document a selector
\* without keys selects) prints as a map, which no scalar prints like.
SprintV(v) ==
    CASE v.t = "int" -> Decimal(v.n)
      [] v.t = "obj" -> <<"map[", "]">>
      [] v.t = "float" -> FormatFloat(v.n)
      [] v.t = "str" -> v.s
      [] v.t = "bool" -> IF v.b THEN <<"t", "r", "u", "e">> ELSE <<"f", "a", "l", "s", "e">>
      [] OTHER -> <<"<", "n", "i", "l", ">">>

\* A %s that prints every value the way %v does.
SprintSPlain(v) == SprintV(v)

\* fmt.Sprintf("%s", v): a string prints as itself, any other type as the
\* bad-verb form %!s(type=value).
SprintS(v) ==
    CASE v.t = "str" -> v.s
      [] v.t = "obj" -> <<"map[", "]">>
      [] v.t = "int" -> <<"%!s(", "int", "=">> \o Decimal(v.n) \o <<")">>
      [] v.t = "float" -> <<"%!s(", "float64", "=">> \o FormatFloat(v.n) \o <<")">>
      [] v.t = "bool" -> <<"%!s(", "bool", "=">> \o SprintV(v) \o <<")">>
      [] OTHER -> <<"%!s(", "<", "n", "i", "l", ">", ")">>

\* ------------------------------------------------------- text/template

\* The field actions the test sets of the model use; readTestDefinition has
\* already rewritten {{ name }} to {{.name}}.
VarOfAction(lx) ==
    CASE lx = "{{.created_id}}" -> "created_id"
      [] lx = "{{.token}}" -> "token"
      [] OTHER -> ""

IsAction(lx) == VarOfAction(lx) # ""

\* template.Parse fails on an action that is never closed.
TemplateParseOK(text) == \A i \in 1..Len(text) : text[i] # "{{"

\* The value of .name on a map[string]interface{}: a missing key yields the
\* zero interface value (missingkey=default), no error.
MapIndex(m, name) == IF name \in DOMAIN m THEN m[name] ELSE NilV

\* text/template's printValue: a nil interface prints "<no value>", every
\* other value goes through fmt.Fprint, which formats as %v.
TemplatePrint(v) ==
    IF v.t = "nil"
    THEN <<"<", "n", "o", " ", "v", "a", "l", "u", "e", ">">>
    ELSE SprintV(v)

\* template.Execute: text is copied, each action is replaced by the printed
\* value of its variable.
RECURSIVE TemplateExecute(_, _)
TemplateExecute(text, m) ==
    IF text = <<>> THEN <<>>
    ELSE (IF IsAction(Head(text))
          THEN TemplatePrint(MapIndex(m, VarOfAction(Head(text))))
          ELSE <<Head(text)>>) \o TemplateExecute(Tail(text), m)

\* ------------------------------------------------------- encoding/json

\* A marshaller that escapes nothing.
JSONEscapeNothing(c) == <<c>>

\* json.Marshal of one character of a string: the quote and the backslash
\* are escaped, and so are <, > and & (HTML-safe encoding).
JSONEscape(c) ==
    CASE c = "\"" -> <<"\\", "\"">>
      [] c = "\\" -> <<"\\", "\\">>
      [] c = "<" -> <<"\\", "u", "0", "0", "3", "c">>
      [] c = ">" -> <<"\\", "u", "0", "0", "3", "e">>
      [] c = "&" -> <<"\\", "u", "0", "0", "2", "6">>
      [] OTHER -> <<c>>

RECURSIVE JSONEscapeAll(_)
JSONEscapeAll(str) ==
    IF str = <<>> THEN <<>> ELSE JSONEscape(Head(str)) \o JSONEscapeAll(Tail(str))

\* json.Marshal of a string: the JSON string literal, quotes included.
JSONQuote(str) == <<"\"">> \o JSONEscapeAll(str) \o <<"\"">>

\* The character a \uXXXX escape written by JSONEscape stands for.
UnicodeEscape(h) ==
    CASE h = <<"0", "0", "3", "c">> -> "<"
      [] h = <<"0", "0", "3", "e">> -> ">"
      [] h = <<"0", "0", "2", "6">> -> "&"
      [] OTHER -> ""

\* json.Unmarshal of a string literal: text[i..] is scanned up to the closing
\* quote, which must be the last character of the literal's text (the value
\* alphabet of the model holds no ',' ':' or '}' that could continue the
\* document after an early quote).  Returns [ok, s].
RECURSIVE JSONScanString(_, _, _)
JSONScanString(text, i, acc) ==
    IF i > Len(text) THEN [ok |-> FALSE, s |-> <<>>]
    ELSE IF text[i] = "\""
         THEN [ok |-> i = Len(text), s |-> IF i = Len(text) THEN acc ELSE <<>>]
    ELSE IF text[i] = "\\"
         THEN IF i + 1 > Len(text) THEN [ok |-> FALSE, s |-> <<>>]
              ELSE IF text[i + 1] \in {"\"", "\\", "/"}
                   THEN JSONScanString(text, i + 2, Append(acc, text[i + 1]))
              ELSE IF text[i + 1] = "u" /\ i + 5 <= Len(text)
                      /\ UnicodeEscape(SubSeq(text, i + 2, i + 5)) # ""
                   THEN JSONScanString(text, i + 6,
                            Append(acc, UnicodeEscape(SubSeq(text, i + 2, i + 5))))
              ELSE [ok |-> FALSE, s |-> <<>>]
    ELSE JSONScanString(text, i + 1, Append(acc, text[i]))

JSONUnquote(text) ==
    IF Len(text) < 2 \/ text[1] # "\"" THEN [ok |-> FALSE, s |-> <<>>]
    ELSE JSONScanString(text, 2, <<>>)

\* ---------------------------------------------------------- substitution

EmptyMap == [k \in {} |-> NilV]

\* replaceURLVars: the URL is parsed as a template and executed on the
\* variables.  Returns [ok, s]; on error the url is returned as it was.
replaceURLVars(url, m) ==
    IF TemplateParseOK(url)
    THEN [ok |-> TRUE, s |-> TemplateExecute(url, m)]
    ELSE [ok |-> FALSE, s |-> url]

\* One header value through json.Marshal, template.Execute, json.Unmarshal.
HeaderValue(str, m) == JSONUnquote(TemplateExecute(JSONQuote(str), m))

\* setRequestHeaders: the whole map is marshalled, parsed as one template,
\* executed and unmarshalled back into a map[string]string.  Returns [ok, m].
setRequestHeaders(headers, m) ==
    IF \E k \in DOMAIN headers : ~TemplateParseOK(headers[k])
    THEN [ok |-> FALSE, m |-> headers]
    ELSE IF \E k \in DOMAIN headers : ~HeaderValue(headers[k], m).ok
    THEN [ok |-> FALSE, m |-> headers]
    ELSE [ok |-> TRUE, m |-> [k \in DOMAIN headers |-> HeaderValue(headers[k], m).s]]

\* One body value through json.Marshal, template.Execute, json.Unmarshal into
\* interface{}: a string keeps its quotes and has its actions replaced, every
\* number comes back as a float64.  Returns [ok, v].
BodyValue(v, m) ==
    CASE v.t = "str" ->
            LET r == JSONUnquote(TemplateExecute(JSONQuote(v.s), m))
            IN  [ok |-> r.ok, v |-> StrV(r.s)]
      [] v.t \in {"int", "float"} -> [ok |-> TRUE, v |-> FloatV(v.n)]
      [] OTHER -> [ok |-> TRUE, v |-> v]

\* replaceBodyVars.  Returns [ok, m]; on error the body is returned as it was.
replaceBodyVars(body, m) ==
    IF \E k \in DOMAIN body : body[k].t = "str" /\ ~TemplateParseOK(body[k].s)
    THEN [ok |-> FALSE, m |-> body]
    ELSE IF \E k \in DOMAIN body : ~BodyValue(body[k], m).ok
    THEN [ok |-> FALSE, m |-> body]
    ELSE [ok |-> TRUE, m |-> [k \in DOMAIN body |-> BodyValue(body[k], m).v]]

\* ------------------------------------------------------------ selectors

\* A selector is a sequence of lexemes: "." and key names.

\* The first character of the selector is read without a length check, then
\* a dot is put in front unless there is one.
NormalizeSelector(selector) ==
    IF selector[1] # "." THEN <<".">> \o selector ELSE selector

\* jq.Parse: the selector is split on dots and empty segments are dropped.
JqParse(selector) == SelectSeq(selector, LAMBDA lx : lx # ".")

\* op.Apply on a JSON object whose values are scalars: no segment selects the
\* document itself, one segment selects a key, and a further segment fails
\* because a scalar has no keys.  Returns [ok, v].
JqApply(segments, body) ==
    IF segments = <<>> THEN [ok |-> TRUE, v |-> [NilV EXCEPT !.t = "obj"]]
    ELSE IF Len(segments) = 1 /\ segments[1] \in DOMAIN body
    THEN [ok |-> TRUE, v |-> body[segments[1]]]
    ELSE [ok |-> FALSE, v |-> NilV]

\* A checkJSONResponse that lets a selector that does not resolve pass.
checkJSONResponseLenient(body, selector, expectedValue, strict) ==
    IF selector = <<>> THEN "panic"
    ELSE LET value == JqApply(JqParse(NormalizeSelector(selector)), body)
         IN  IF ~value.ok THEN "ok"
             ELSE IF strict
             THEN (IF SprintS(value.v) # SprintS(expectedValue) THEN "fail" ELSE "ok")
             ELSE (IF SprintV(value.v) # SprintV(expectedValue) THEN "fail" ELSE "ok")

\* checkJSONResponse: "ok", "fail", or "panic" for the index out of range on
\* an empty selector.
checkJSONResponse(body, selector, expectedValue, strict) ==
    IF selector = <<>> THEN "panic"
    ELSE LET value == JqApply(JqParse(NormalizeSelector(selector)), body)
         IN  IF ~value.ok THEN "fail"
             ELSE IF strict
             THEN (IF SprintS(value.v) # SprintS(expectedValue) THEN "fail" ELSE "ok")
             ELSE (IF SprintV(value.v) # SprintV(expectedValue) THEN "fail" ELSE "ok")

\* A contains that matches any item, as with an empty substring.
containsAnything(items, substring) == Len(items) > 0

\* contains: some item of the slice has the given substring.
contains(items, substring) ==
    \E i \in 1..Len(items) :
        \E j \in 0..(Len(items[i]) - Len(substring)) :
            SubSeq(items[i], j + 1, j + Len(substring)) = substring

\* ----------------------------------------------------------- assertions

IsDigits(str) ==
    \A i \in 1..Len(str) : str[i] \in {"0", "1", "2", "3", "4", "5", "6", "7", "8", "9"}

DigitValue(c) == CHOOSE d \in 0..9 : Digit(d) = c

\* The number a string of digits denotes, 0 for the empty string.
RECURSIVE DigitsValue(_)
DigitsValue(ds) ==
    IF ds = <<>> THEN 0
    ELSE 10 * DigitsValue(SubSeq(ds, 1, Len(ds) - 1)) + DigitValue(ds[Len(ds)])

RECURSIVE Pow10(_)
Pow10(k) == IF k = 0 THEN 1 ELSE 10 * Pow10(k - 1)

\* The position of the first c in str, 0 when there is none.
IndexOf(str, c) ==
    IF \E i \in 1..Len(str) : str[i] = c
    THEN CHOOSE i \in 1..Len(str) : str[i] = c /\ \A j \in 1..(i - 1) : str[j] # c
    ELSE 0

\* strconv.ParseFloat(s, 64) on the strings of the model: digits with at most
\* one point, then an optional exponent e, e+ and digits.  No sign, space or
\* other character is accepted, and neither is the empty string.  Every
\* numeric string of the model denotes a whole number, so the value is kept
\* as an integer.  Returns [ok, n].
ParseFloat(str) ==
    LET e == IndexOf(str, "e")
        mant == IF e = 0 THEN str ELSE SubSeq(str, 1, e - 1)
        expo == IF e = 0 THEN <<>> ELSE SubSeq(str, e + 1, Len(str))
        dot == IndexOf(mant, ".")
        ip == IF dot = 0 THEN mant ELSE SubSeq(mant, 1, dot - 1)
        fp == IF dot = 0 THEN <<>> ELSE SubSeq(mant, dot + 1, Len(mant))
        xs == IF expo # <<>> /\ expo[1] = "+" THEN Tail(expo) ELSE expo
        x == IF IsDigits(xs) THEN DigitsValue(xs) ELSE 0
    IN  IF /\ IsDigits(ip) /\ IsDigits(fp) /\ ip \o fp # <<>>
           /\ (e = 0 \/ (xs # <<>> /\ IsDigits(xs)))
           /\ x >= Len(fp)
        THEN [ok |-> TRUE, n |-> DigitsValue(ip \o fp) * Pow10(x - Len(fp))]
        ELSE [ok |-> FALSE, n |-> 0]

\* An equals that asks for the same type as well as the same text.
equalsTyped(val, comparison) == val.t = comparison.t /\ SprintV(val) = SprintV(comparison)

\* equals: the two values print alike with %v.
equals(val, comparison) == SprintV(val) = SprintV(comparison)

\* An asFloat that takes a value it cannot parse as zero.
asFloatZero(val1, val2) ==
    [err |-> "nil", bad |-> NilV, f1 |-> ParseFloat(SprintV(val1)).n,
     f2 |-> ParseFloat(SprintV(val2)).n]

\* asFloat: both values are printed with %v and parsed; the error names the
\* first value that does not parse.  Returns [err, bad, f1, f2].
asFloat(val1, val2) ==
    LET float1 == ParseFloat(SprintV(val1))
        float2 == ParseFloat(SprintV(val2))
    IN  IF ~float1.ok THEN [err |-> "parse", bad |-> val1, f1 |-> 0, f2 |-> 0]
        ELSE IF ~float2.ok THEN [err |-> "parse", bad |-> val2, f1 |-> 0, f2 |-> 0]
        ELSE [err |-> "nil", bad |-> NilV, f1 |-> float1.n, f2 |-> float2.n]

\* The result of checkAssertions: kind is "nil" for no error, "expected" for
\* an equals that does not hold, "compare" for a numeric rule that does not
\* hold, "parse" for a value that is no number and "invalid" for a rule that
\* is not known; rule is the rule that made the error, bad the value that did
\* not parse, visited the number of rules the loop went through.
NoError == [kind |-> "nil", rule |-> "", bad |-> NilV, visited |-> 0]

\* A switch that has a case for every rule name.
knownRuleAny(k) == TRUE

\* The rule names the switch of checkAssertions has a case for.
knownRule(k) == k \in {"equals", "lt", "gt", "le", "ge", "exists"}

\* Numeric rules that all refuse equal numbers.
comparisonFailsOnEqual(k, val1, val2) ==
    CASE k = "lt" -> val1 >= val2
      [] k = "gt" -> val1 <= val2
      [] k = "le" -> val1 >= val2
      [] k = "ge" -> val1 <= val2
      [] OTHER -> FALSE

\* The condition under which a numeric rule returns its error.
comparisonFails(k, val1, val2) ==
    CASE k = "lt" -> val1 >= val2
      [] k = "gt" -> val1 <= val2
      [] k = "le" -> val1 > val2
      [] k = "ge" -> val1 < val2
      [] OTHER -> FALSE

\* One case of the switch of checkAssertions.
checkRule(value, k, comparisonValue) ==
    IF ~knownRule(k) THEN [NoError EXCEPT !.kind = "invalid", !.rule = k]
    ELSE IF k = "equals"
    THEN (IF ~equals(value, comparisonValue)
          THEN [NoError EXCEPT !.kind = "expected", !.rule = k]
          ELSE NoError)
    ELSE IF k \in {"lt", "gt", "le", "ge"}
    THEN LET f == asFloat(value, comparisonValue)
         IN  IF f.err # "nil"
             THEN [NoError EXCEPT !.kind = "parse", !.rule = k, !.bad = f.bad]
             ELSE IF comparisonFails(k, f.f1, f.f2)
             THEN [NoError EXCEPT !.kind = "compare", !.rule = k]
             ELSE NoError
    ELSE NoError

\* A checkAssertions that returns after the first rule it visits, whatever
\* the rule gave.
checkAssertionsFirstOnly(value, rules, order) ==
    IF order = <<>> THEN NoError
    ELSE [checkRule(value, Head(order), rules[Head(order)]) EXCEPT !.visited = 1]

\* checkAssertions(value, rules): rules is a Go map, ranged over in an order
\* the runtime chooses; order is that order, a sequence of the map's keys.
\* The first rule that makes an error returns it.
RECURSIVE checkAssertions(_, _, _)
checkAssertions(value, rules, order) ==
    IF order = <<>> THEN NoError
    ELSE LET r == checkRule(value, Head(order), rules[Head(order)])
         IN  IF r.kind # "nil" THEN [r EXCEPT !.visited = 1]
             ELSE [checkAssertions(value, rules, Tail(order)) EXCEPT !.visited = @ + 1]

\* -------------------------------------------------------------- request

\* The Content-Type header values a server of the model answers with.
JSONType == <<"application/json">>

\* A store that is lost: it goes to a copy of the map the caller never sees.
StoreVarLost(m, name, value) == m

\* env.Vars[v.Name] = setValue
StoreVar(m, name, value) == (name :> value) @@ m

\* A `set:` loop that passes over a selector that does not resolve and goes on
\* with the next directive.
RECURSIVE SetUserVarsSkipping(_, _, _, _, _)
SetUserVarsSkipping(setVars, body, m, isNil, writes) ==
    IF setVars = <<>> THEN [vars |-> m, writes |-> writes, out |-> "ok"]
    ELSE LET v == Head(setVars)
         IN  IF v.Key = <<>> THEN [vars |-> m, writes |-> writes, out |-> "panic"]
             ELSE LET value == JqApply(JqParse(NormalizeSelector(v.Key)), body)
                  IN  IF ~value.ok
                      THEN SetUserVarsSkipping(Tail(setVars), body, m, isNil, writes)
                      ELSE IF isNil
                      THEN [vars |-> m, writes |-> writes, out |-> "panic"]
                      ELSE SetUserVarsSkipping(Tail(setVars), body,
                               (v.Name :> value.v) @@ m, isNil,
                               Append(writes, [name |-> v.Name, value |-> value.v]))

\* The `set:` loop of request: each directive's source selector is resolved
\* in the response body and the value stored under the directive's name.  The
\* loop returns at the first selector that does not resolve; an empty selector
\* and a store into a nil map panic.  Returns the variables, the stores made
\* (in order) and how the loop ended: "ok", "capture" or "panic".
RECURSIVE SetUserVars(_, _, _, _, _)
SetUserVars(setVars, body, m, isNil, writes) ==
    IF setVars = <<>> THEN [vars |-> m, writes |-> writes, out |-> "ok"]
    ELSE LET v == Head(setVars)
         IN  IF v.Key = <<>> THEN [vars |-> m, writes |-> writes, out |-> "panic"]
             ELSE LET value == JqApply(JqParse(NormalizeSelector(v.Key)), body)
                  IN  IF ~value.ok
                      THEN [vars |-> m, writes |-> writes, out |-> "capture"]
                      ELSE IF isNil
                      THEN [vars |-> m, writes |-> writes, out |-> "panic"]
                      ELSE SetUserVars(Tail(setVars), body, StoreVar(m, v.Name, value.v),
                               isNil, Append(writes, [name |-> v.Name, value |-> value.v]))

\* What request sends: the substituted URL, headers and body.
NoSent == [url |-> <<>>, headers |-> EmptyMap, body |-> EmptyMap, form |-> FALSE]

\* The result of request before anything has happened: err is the returned
\* error ("nil" for none), failing the number of failed field checks, vars
\* and Body the maps the call shares with its caller, steps the stages gone
\* through, sent the HTTP request made, fields the outcome of each field
\* check, writes the variables stored.
NoResult(req, m) ==
    [err |-> "nil", failing |-> 0, panicked |-> FALSE, vars |-> m, Body |-> req.Body,
     steps |-> <<>>, sent |-> NoSent, fields |-> EmptyMap, writes |-> <<>>]

FormTypes == {"urlencoded", "x-www-form-urlencoded", "application/x-www-form-urlencoded"}

\* request up to the HTTP call: URL, then headers, then body are substituted;
\* the first error returns.  A substituted body is stored back into the
\* request's own Body map by json.Unmarshal.
Substitute(req, m, envHeaders) ==
    LET url == replaceURLVars(req.URL, m)
        hdr == setRequestHeaders(envHeaders, m)
        bdy == replaceBodyVars(req.Body, m)
        isForm == req.ContentType \in FormTypes
        ctype == IF isForm THEN <<"application/x-www-form-urlencoded">> ELSE JSONType
        r0 == [NoResult(req, m) EXCEPT !.steps = <<"substitute">>]
    IN  IF ~url.ok \/ ~hdr.ok \/ ~bdy.ok
        THEN [r0 EXCEPT !.err = "substitute"]
        ELSE [r0 EXCEPT
                !.Body = bdy.m,
                !.sent = [url |-> url.s,
                          headers |-> ("Content-Type" :> ctype) @@ hdr.m,
                          body |-> IF isForm
                                   THEN [k \in DOMAIN bdy.m |-> StrV(SprintS(bdy.m[k]))]
                                   ELSE bdy.m,
                          form |-> isForm]]

\* A status check that is never a mismatch.
statusAlwaysMatches(resp, expect) == TRUE

\* A status check by class: any answer below 400 is taken as the expected one
\* and any other as a mismatch.
statusMatchesByClass(resp, expect) == resp.status < 400

\* The status check: the received status is the expected one.
statusMatches(resp, expect) == resp.status = expect.Status

\* A response that is not JSON is an error when field checks were asked for.
NonJSONOutcomeStrict(expect) == IF DOMAIN expect.Values # {} THEN "nonjson" ELSE "nil"

\* What request returns for a response that is not JSON, once the status has
\* matched: no error, whatever the expectation holds.
NonJSONOutcome(expect) == "nil"

\* request from the HTTP call on: resp is the server's answer.
Evaluate(req, r0, isNil, resp) ==
    LET expect == req.Expect
        r1 == [r0 EXCEPT !.steps = Append(@, "execute")]
        r2 == [r1 EXCEPT !.steps = Append(@, "status")]
        checks == [k \in DOMAIN expect.Values |->
                      checkJSONResponse(resp.body, k, expect.Values[k], expect.Strict)]
        failCount == Cardinality({k \in DOMAIN checks : checks[k] = "fail"})
        r3 == [r2 EXCEPT !.steps = Append(@, "fields"), !.fields = checks,
                         !.failing = failCount]
        set == SetUserVars(req.SetVars, resp.body, r0.vars, isNil, <<>>)
        r4 == [r3 EXCEPT !.steps = Append(@, "capture"), !.vars = set.vars,
                         !.writes = set.writes]
    IN  IF resp.neterr THEN [r1 EXCEPT !.err = "transport"]
        ELSE IF ~statusMatches(resp, expect) THEN [r2 EXCEPT !.err = "status"]
        ELSE IF ~contains(resp.ctype, JSONType)
        THEN [r2 EXCEPT !.err = NonJSONOutcome(expect)]
        ELSE IF ~resp.valid THEN [r2 EXCEPT !.err = "decode"]
        ELSE IF \E k \in DOMAIN checks : checks[k] = "panic"
        THEN [r3 EXCEPT !.panicked = TRUE]
        ELSE IF set.out = "panic" THEN [r4 EXCEPT !.panicked = TRUE]
        ELSE IF set.out = "capture" THEN [r4 EXCEPT !.err = "capture"]
        ELSE IF failCount > 0 THEN [r4 EXCEPT !.err = "conditions"]
        ELSE r4

\* A request that goes on to the checks when the HTTP call returned an error,
\* with the empty response the client hands back.
requestIgnoringTransportError(req, m, isNil, envHeaders, resp) ==
    LET r0 == Substitute(req, m, envHeaders)
    IN  IF r0.err # "nil" THEN r0
        ELSE Evaluate(req, r0, isNil, [resp EXCEPT !.neterr = FALSE])

\* A request that undoes its captures when a field check has failed.
requestDroppingCapturesOnFailure(req, m, isNil, envHeaders, resp) ==
    LET r0 == Substitute(req, m, envHeaders)
        r == IF r0.err # "nil" THEN r0 ELSE Evaluate(req, r0, isNil, resp)
    IN  IF r.err = "conditions" THEN [r EXCEPT !.vars = m, !.writes = <<>>] ELSE r

\* request(request, count, env, verbose)
request(req, m, isNil, envHeaders, resp) ==
    LET r0 == Substitute(req, m, envHeaders)
    IN  IF r0.err # "nil" THEN r0 ELSE Evaluate(req, r0, isNil, resp)

\* --------------------------------------------------------- command line

\* strings.Split(s, sep): the pieces of s between the separators, one more
\* than there are separators.
RECURSIVE Split(_, _)
Split(str, sep) ==
    LET i == IndexOf(str, sep)
    IN  IF i = 0 THEN <<str>>
        ELSE <<SubSeq(str, 1, i - 1)>> \o Split(SubSeq(str, i + 1, Len(str)), sep)

\* The Go string a sequence of lexemes spells, as a map key.
RECURSIVE Spell(_)
Spell(str) == IF str = <<>> THEN "" ELSE Head(str) \o Spell(Tail(str))

\* processEnvVars: each entry is split on every = and must give two pieces,
\* key and value; the value is stored under the key as a string.  The first
\* entry that does not give two pieces returns the usage error, the entries
\* before it stay stored; a store into a nil map panics.  Returns [err, vars].
RECURSIVE processEnvVars(_, _, _)
processEnvVars(m, isNil, userVars) ==
    IF userVars = <<>> THEN [err |-> "nil", vars |-> m]
    ELSE LET pair == Split(Head(userVars), "=")
         IN  IF Len(pair) # 2 THEN [err |-> "usage", vars |-> m]
             ELSE IF isNil THEN [err |-> "panic", vars |-> m]
             ELSE processEnvVars((Spell(pair[1]) :> StrV(pair[2])) @@ m, isNil,
                                 Tail(userVars))

\* ------------------------------------------------------------ test sets

\* The values the server's resource may hold in its id field: a small JSON
\* number, a JSON number that %v prints in exponent form, and a JSON string
\* with a quote in it.
IdValues == {FloatV(1), FloatV(1000000), StrV(<<"a", "\"">>)}

\* A response value as the author of a YAML test file writes it: a whole
\* number is decoded by the YAML library as an int.
YAMLLiteral(v) == IF v.t = "float" THEN IntV(v.n) ELSE v

Title == StrV(<<"t">>)

NoExpect == [k \in {} |-> NilV]

\* The requests a test file of the model is made of; id is the value the
\* author expects in the id field.
CreateTodo ==
    [Name |-> "A", URL |-> <<"/">>, Method |-> "post", ContentType |-> "",
     Body |-> ("title" :> Title),
     Expect |-> [Status |-> 200, Values |-> NoExpect, Strict |-> FALSE],
     SetVars |-> <<[Key |-> <<"id">>, Name |-> "created_id"],
                   [Key |-> <<".", "title">>, Name |-> "title"]>>]

GetTodo(id) ==
    [Name |-> "B", URL |-> <<"/", "{{.created_id}}">>, Method |-> "get", ContentType |-> "",
     Body |-> EmptyMap,
     Expect |-> [Status |-> 200,
                 Values |-> (<<"id">> :> YAMLLiteral(id)) @@ (<<".", "title">> :> Title),
                 Strict |-> FALSE],
     SetVars |-> <<[Key |-> <<".", "id">>, Name |-> "last_id"]>>]

UpdateTodo(id) ==
    [Name |-> "B", URL |-> <<"/">>, Method |-> "put", ContentType |-> "",
     Body |-> ("ref" :> StrV(<<"{{.created_id}}">>)) @@ ("n" :> IntV(2)),
     Expect |-> [Status |-> 404,
                 Values |-> (<<"id">> :> YAMLLiteral(id)) @@ (<<"title">> :> Title),
                 Strict |-> FALSE],
     SetVars |-> <<[Key |-> <<"id">>, Name |-> "created_id"],
                   [Key |-> <<"title">>, Name |-> "token"],
                   [Key |-> <<"id">>, Name |-> "last_id"]>>]

Unclosed ==
    [Name |-> "A", URL |-> <<"/", "{{">>, Method |-> "get", ContentType |-> "",
     Body |-> EmptyMap,
     Expect |-> [Status |-> 200, Values |-> NoExpect, Strict |-> FALSE],
     SetVars |-> <<>>]

Catalogue(id) == {CreateTodo, GetTodo(id), UpdateTodo(id), Unclosed}

RECURSIVE SeqsOfLen(_, _)
SeqsOfLen(S, k) ==
    IF k = 0 THEN {<<>>}
    ELSE {Append(q, x) : q \in SeqsOfLen(S, k - 1), x \in S}

RequestLists(id) == UNION {SeqsOfLen(Catalogue(id), k) : k \in 1..MaxReqs}

\* environment.headers and environment.vars of the test file.
FileHeaders == ("Authorization" :> <<"B", " ", "{{.token}}">>)
FileVars == ("token" :> StrV(<<"s">>))

\* The names given to --test: none, or the name of a request.
TestNames == {"", "B"}

\* ------------------------------------------------------------ responses

NetError == [neterr |-> TRUE, status |-> 0, ctype |-> <<>>, valid |-> FALSE, body |-> EmptyMap]

JSONResponse(status, body) ==
    [neterr |-> FALSE, status |-> status,
     ctype |-> <<JSONType \o <<";", " ", "charset=utf-8">>>>, valid |-> TRUE, body |-> body]

TextResponse(status) ==
    [neterr |-> FALSE, status |-> status, ctype |-> <<<<"text/plain">>>>,
     valid |-> FALSE, body |-> EmptyMap]

\* A JSON Content-Type on a body that does not decode.
BrokenJSON(status) == [JSONResponse(status, EmptyMap) EXCEPT !.valid = FALSE]

Full(id) == ("id" :> id) @@ ("title" :> Title)
Partial(id) == ("id" :> id)

\* What the server may answer to one request: no answer, or a status with a
\* text body, with the resource, with the resource less its title, or with an
\* undecodable body.
Responses(id) ==
    {NetError, BrokenJSON(200)}
    \cup {TextResponse(st) : st \in {200, 404}}
    \cup {JSONResponse(st, b) : st \in {200, 404}, b \in {Full(id), Partial(id)}}

\* -------------------------------------------------------------- metrics

\* strings.ToUpper on the methods of the test sets.
ToUpper(method) ==
    CASE method = "get" -> "GET"
      [] method = "post" -> "POST"
      [] method = "put" -> "PUT"
      [] OTHER -> method

\* url.EscapedPath: a character that may not stand in a path is written as
\* its percent escape.
RECURSIVE EscapedPath(_)
EscapedPath(path) ==
    IF path = <<>> THEN <<>>
    ELSE (CASE Head(path) = "<" -> <<"%", "3", "C">>
            [] Head(path) = ">" -> <<"%", "3", "E">>
            [] Head(path) = " " -> <<"%", "2", "0">>
            [] Head(path) = "\"" -> <<"%", "2", "2">>
            [] OTHER -> <<Head(path)>>) \o EscapedPath(Tail(path))

\* processURL(rawURL): the host name and the escaped path of the URL; the URLs
\* of the test sets are paths without a host.
processURL(rawURL) == [hostname |-> <<>>, path |-> EscapedPath(rawURL)]

\* The label values runRequests gives to recordError, recordRequest and
\* recordDuration for the request r whose call sent rawURL: the URL request
\* hands back, taken here as the substituted URL, empty when the substitution
\* failed.  All three calls of an iteration get the same values.
Labels(r, rawURL) ==
    [name |-> r.Name, hostname |-> processURL(rawURL).hostname,
     path |-> processURL(rawURL).path, method |-> ToUpper(r.Method)]

\* A counter vector maps the label values it has seen to a count; a label
\* set it has not seen has no series.
NoCounts == [l \in {} |-> 0]
Count(counter, l) == IF l \in DOMAIN counter THEN counter[l] ELSE 0

\* WithLabelValues(...).Inc()
Inc(counter, l) == (l :> Count(counter, l) + 1) @@ counter

\* recordError, recordRequest
recordError(counter, l) == Inc(counter, l)
recordRequest(counter, l) == Inc(counter, l)

\* An error count that goes up by one for every failed field check of the
\* request.
ErrorsAfterPerAssertion(counter, l, res) ==
    (l :> Count(counter, l) + res.failing) @@ counter

\* runRequests in monitor mode after request has returned res: an error is
\* recorded when request returned an error.
ErrorsAfter(counter, l, res) ==
    IF res.err # "nil" THEN recordError(counter, l) ELSE counter

\* Environment headers that are the map request substitutes and sends.
EnvHeadersAliased(envHeaders, sentHeaders) == sentHeaders

\* env.Headers after a call of request: request copies the map before it
\* substitutes and adds Content-Type, so the map is as before.
EnvHeadersAfter(envHeaders, sentHeaders) == envHeaders

\* -------------------------------------------------------- state machine

VARIABLES
    resource,        \* the id value the server's resource holds
    testname,        \* the --test filter, "" for none
    requests,        \* set.Requests; each request's Body map is shared with request
    headers,         \* set.Environment.Headers
    vars,            \* set.Environment.Vars, shared by every request of the run
    varsNil,         \* the test file has no vars section: Vars is a nil map
    idx,             \* position of runRequests' loop in requests
    currentRequest,  \* runRequests' count of requests made
    failCount,       \* runRequests' count of requests that returned an error
    pc,              \* "run", "done" (runRequests has returned) or "panicked"
    history,         \* one entry per call of request, in call order
    run,             \* the number of the run of runRequests, from 1
    requestsProcessed, \* the counter vector apitest_requests_total
    requestErrors,   \* the counter vector apitest_requests_errors_total
    scrape,          \* what the last request to /metrics has read
    call             \* a function of the program applied on its own: its input and result

state == <<resource, testname, requests, headers, vars, varsNil, idx, currentRequest,
           failCount, pc, history, run, requestsProcessed, requestErrors, scrape, call>>

\* Nothing has been read from /metrics.
NoScrape == [taken |-> FALSE, total |-> NoCounts, errors |-> NoCounts]

\* No function is applied on its own during a run of runRequests.
NoCall == [fn |-> "none"]

NoResponse == [NetError EXCEPT !.neterr = FALSE]

Init ==
    /\ resource \in IdValues
    /\ testname \in TestNames
    /\ requests \in RequestLists(resource)
    /\ headers = FileHeaders
    /\ varsNil \in BOOLEAN
    /\ vars = IF varsNil THEN EmptyMap ELSE FileVars
    /\ idx = 1
    /\ currentRequest = 0
    /\ failCount = 0
    /\ pc = "run"
    /\ history = <<>>
    /\ run = 1
    /\ requestsProcessed = NoCounts
    /\ requestErrors = NoCounts
    /\ scrape = NoScrape
    /\ call = NoCall

\* A filter that skips nothing.
skipsNothing(name, r) == FALSE

\* runRequests' filter: with a test name given, a request of another name is
\* skipped.
skips(name, r) == name # "" /\ name # r.Name

\* An iteration of runRequests' loop over a request the filter skips.
Skip ==
    /\ pc = "run"
    /\ idx <= Len(requests)
    /\ skips(testname, requests[idx])
    /\ idx' = idx + 1
    /\ UNCHANGED <<resource, testname, requests, headers, vars, varsNil, currentRequest,
                   failCount, pc, history, run, requestsProcessed, requestErrors, scrape,
                   call>>

\* A tally that ends the loop at the first request that returned an error.
TallyStopping(res) ==
    /\ failCount' = IF res.err # "nil" THEN failCount + 1 ELSE failCount
    /\ idx' = IF res.err # "nil" THEN Len(requests) + 1 ELSE idx + 1
    /\ pc' = "run"

\* runRequests' tally after request has returned res.
Tally(res) ==
    /\ failCount' = IF res.err # "nil" THEN failCount + 1 ELSE failCount
    /\ idx' = idx + 1
    /\ pc' = "run"

\* The entry of the history for a call of request.
Entry(resp, res) ==
    [i |-> idx, count |-> currentRequest + 1, req |-> requests[idx], env |-> vars,
     resp |-> resp, res |-> res, run |-> run,
     labels |-> Labels(requests[idx], res.sent.url)]

\* An iteration of runRequests' loop that calls request, without --monitor:
\* the request is recorded, an error is not.  A panic inside request ends the
\* process.
DoRequest ==
    /\ pc = "run"
    /\ idx <= Len(requests)
    /\ ~skips(testname, requests[idx])
    /\ \E resp \in (IF Substitute(requests[idx], vars, headers).err = "nil"
                    THEN Responses(resource) ELSE {NoResponse}) :
          LET res == request(requests[idx], vars, varsNil, headers, resp)
          IN  /\ currentRequest' = currentRequest + 1
              /\ history' = Append(history, Entry(resp, res))
              /\ requests' = [requests EXCEPT ![idx].Body = res.Body]
              /\ vars' = res.vars
              /\ headers' = EnvHeadersAfter(headers, res.sent.headers)
              /\ IF res.panicked
                 THEN pc' = "panicked" /\ UNCHANGED <<idx, failCount, requestsProcessed>>
                 ELSE /\ Tally(res)
                      /\ requestsProcessed' =
                            recordRequest(requestsProcessed,
                                          Labels(requests[idx], res.sent.url))
    /\ UNCHANGED <<resource, testname, varsNil, run, requestErrors, scrape, call>>

\* runRequests returns (currentRequest, failCount).
Finish ==
    /\ pc = "run"
    /\ idx > Len(requests)
    /\ pc' = "done"
    /\ UNCHANGED <<resource, testname, requests, headers, vars, varsNil, idx,
                   currentRequest, failCount, history, run, requestsProcessed,
                   requestErrors, scrape, call>>

Next == Skip \/ DoRequest \/ Finish

Spec == Init /\ [][Next]_state

\* --------------------------------------------------------- monitor mode

\* Most runs of runRequests that runMonitor's loop makes.
MaxRuns == 2

\* A request sent as a form, which captures a new token.
FormTodo ==
    [Name |-> "A", URL |-> <<"/">>, Method |-> "post", ContentType |-> "urlencoded",
     Body |-> ("title" :> StrV(<<"{{.token}}">>)),
     Expect |-> [Status |-> 200, Values |-> NoExpect, Strict |-> FALSE],
     SetVars |-> <<[Key |-> <<"title">>, Name |-> "token"]>>]

\* The test files monitored: a read before the create that captures its id,
\* an update with the id in its body before the create, and a form.
MonitorLists(id) ==
    {<<GetTodo(id), CreateTodo>>, <<UpdateTodo(id), CreateTodo>>, <<FormTodo, GetTodo(id)>>}

\* The monitored setups: each test file against a server whose id is 1, the
\* first also against a server whose id prints in exponent form, and the last
\* also with --test B.
MonitorSetups ==
    {[id |-> FloatV(1), test |-> "", list |-> l] : l \in MonitorLists(FloatV(1))}
    \cup {[id |-> FloatV(1000000), test |-> "",
           list |-> <<GetTodo(FloatV(1000000)), CreateTodo>>],
          [id |-> FloatV(1), test |-> "B", list |-> <<FormTodo, GetTodo(FloatV(1))>>]}

\* What the monitored server may answer to one request: no answer, or 200
\* with the resource or with the resource less its title (the update expects
\* 404, so every answer to it is a status mismatch).
MonitorResponses(id) ==
    {NetError, JSONResponse(200, Full(id)), JSONResponse(200, Partial(id))}

\* main with --monitor: the test file is read, the metrics handler serves, and
\* runMonitor starts its first run.
MonitorInit ==
    /\ \E setup \in MonitorSetups :
          resource = setup.id /\ testname = setup.test /\ requests = setup.list
    /\ headers = FileHeaders
    /\ varsNil = FALSE
    /\ vars = FileVars
    /\ idx = 1
    /\ currentRequest = 0
    /\ failCount = 0
    /\ pc = "run"
    /\ history = <<>>
    /\ run = 1
    /\ requestsProcessed = NoCounts
    /\ requestErrors = NoCounts
    /\ scrape = NoScrape
    /\ call = NoCall

\* An iteration of runRequests' loop in monitor mode, up to recordError:
\* request is called, a returned error is counted and recorded.
MonitorRequest ==
    /\ pc = "run"
    /\ idx <= Len(requests)
    /\ ~skips(testname, requests[idx])
    /\ \E resp \in (IF Substitute(requests[idx], vars, headers).err = "nil"
                    THEN MonitorResponses(resource) ELSE {NoResponse}) :
          LET res == request(requests[idx], vars, varsNil, headers, resp)
          IN  /\ currentRequest' = currentRequest + 1
              /\ history' = Append(history, Entry(resp, res))
              /\ requests' = [requests EXCEPT ![idx].Body = res.Body]
              /\ vars' = res.vars
              /\ headers' = EnvHeadersAfter(headers, res.sent.headers)
              /\ IF res.panicked
                 THEN pc' = "panicked" /\ UNCHANGED <<failCount, requestErrors>>
                 ELSE /\ failCount' = IF res.err # "nil" THEN failCount + 1 ELSE failCount
                      /\ requestErrors' =
                            ErrorsAfter(requestErrors,
                                        Labels(requests[idx], res.sent.url), res)
                      /\ pc' = "record"
    /\ UNCHANGED <<resource, testname, varsNil, idx, run, requestsProcessed, scrape, call>>

\* The rest of the iteration: recordRequest, with the label values of the
\* call just made, and the loop goes to the next request.
MonitorRecord ==
    /\ pc = "record"
    /\ requestsProcessed' = recordRequest(requestsProcessed, history[Len(history)].labels)
    /\ idx' = idx + 1
    /\ pc' = "run"
    /\ UNCHANGED <<resource, testname, requests, headers, vars, varsNil, currentRequest,
                   failCount, history, run, requestErrors, scrape, call>>

\* runMonitor's loop: after the delay, runRequests is called again with the
\* same requests and the same environment; its two counts start from zero.
Repeat ==
    /\ pc = "done"
    /\ run < MaxRuns
    /\ run' = run + 1
    /\ idx' = 1
    /\ currentRequest' = 0
    /\ failCount' = 0
    /\ pc' = "run"
    /\ UNCHANGED <<resource, testname, requests, headers, vars, varsNil, history,
                   requestsProcessed, requestErrors, scrape, call>>

\* The metrics handler answers a request to /metrics, at any moment of the
\* run task: it reads both counter vectors.
Scrape ==
    /\ pc \in {"run", "record", "done"}
    /\ scrape' = [taken |-> TRUE, total |-> requestsProcessed, errors |-> requestErrors]
    /\ UNCHANGED <<resource, testname, requests, headers, vars, varsNil, idx,
                   currentRequest, failCount, pc, history, run, requestsProcessed,
                   requestErrors, call>>

MonitorNext == Skip \/ MonitorRequest \/ MonitorRecord \/ Finish \/ Repeat \/ Scrape

MonitorSpec == MonitorInit /\ [][MonitorNext]_state

\* ------------------------------------- functions applied on their own

\* Most rules of one rule set.
MaxRules == 2

\* Values as json.Unmarshal gives them (a number is a float64) and as the YAML
\* decoder gives them (a whole number is an int).
ReceivedValues ==
    {FloatV(123), FloatV(2), FloatV(1000000), StrV(<<"1", "2", "3">>), StrV(<<"a">>),
     BoolV(TRUE)}
ComparisonValues ==
    {IntV(123), IntV(2), IntV(1000000), StrV(<<"1", "2", "3">>), StrV(<<"a">>), NilV}

\* The rule names of the model: the six of the switch and one it does not know.
RuleNames == {"equals", "lt", "gt", "le", "ge", "exists", "regex"}

RuleSets ==
    UNION {[D -> ComparisonValues] :
              D \in {E \in SUBSET RuleNames : Cardinality(E) \in 1..MaxRules}}

\* The orders in which a range over a map with the keys D may visit them.
Orders(D) ==
    {q \in SeqsOfLen(D, Cardinality(D)) : \A i, j \in 1..Len(q) : i # j => q[i] # q[j]}

\* The main loop is not running while a function is applied on its own.
Idle ==
    /\ resource = FloatV(1)
    /\ testname = ""
    /\ requests = <<>>
    /\ headers = FileHeaders
    /\ vars = FileVars
    /\ varsNil = FALSE
    /\ idx = 1
    /\ currentRequest = 0
    /\ failCount = 0
    /\ pc = "unit"
    /\ history = <<>>
    /\ run = 1
    /\ requestsProcessed = NoCounts
    /\ requestErrors = NoCounts
    /\ scrape = NoScrape

main == <<resource, testname, requests, headers, vars, varsNil, idx, currentRequest,
          failCount, pc, history, run, requestsProcessed, requestErrors, scrape>>

EqualsCalls ==
    {[fn |-> "equals", val |-> a, comparison |-> b, done |-> FALSE, out |-> FALSE] :
        a \in ReceivedValues, b \in ComparisonValues}

AssertionCalls ==
    {[fn |-> "checkAssertions", value |-> a, rules |-> r, order |-> <<>>, done |-> FALSE,
      out |-> NoError] : a \in ReceivedValues, r \in RuleSets}

ApplyEquals ==
    /\ call.fn = "equals" /\ ~call.done
    /\ call' = [call EXCEPT !.done = TRUE, !.out = equals(call.val, call.comparison)]
    /\ UNCHANGED main

ApplyCheckAssertions ==
    /\ call.fn = "checkAssertions" /\ ~call.done
    /\ \E order \in Orders(DOMAIN call.rules) :
          call' = [call EXCEPT !.done = TRUE, !.order = order,
                               !.out = checkAssertions(call.value, call.rules, order)]
    /\ UNCHANGED main

\* The values of a response field and the values an author may expect for it;
\* a YAML 10 is an int and a YAML 10.0 is a float64.
FieldValues ==
    {FloatV(10), StrV(<<"1", "0">>), BoolV(TRUE), StrV(<<"t", "r", "u", "e">>), NilV,
     StrV(<<"<", "n", "i", "l", ">">>)}
ExpectedValues == FieldValues \cup {IntV(10)}

Selectors ==
    {<<"foo">>, <<".", "foo">>, <<"bar">>, <<".", "bar">>, <<"foo", ".", "foo">>,
     <<".", "foo", ".", "foo">>, <<>>, <<".">>}

SelectorCalls ==
    {[fn |-> "checkJSONResponse", body |-> ("foo" :> v), selector |-> sel,
      expectedValue |-> x, strict |-> st, done |-> FALSE, out |-> ""] :
        v \in FieldValues, sel \in Selectors, x \in ExpectedValues, st \in BOOLEAN}

SetCalls ==
    {[fn |-> "set", body |-> ("foo" :> v), setVars |-> <<[Key |-> sel, Name |-> "v"]>>,
      done |-> FALSE, out |-> [vars |-> EmptyMap, writes |-> <<>>, out |-> ""]] :
        v \in FieldValues, sel \in Selectors}

\* The values of a variable, the environments holding the variable token or
\* not, and the texts of a URL, a header or a body field.
VarValues ==
    {StrV(<<"s">>), StrV(<<"a", "\"">>), StrV(<<"a", "\\">>), FloatV(7), BoolV(TRUE), NilV}
Envs == {EmptyMap} \cup {("token" :> v) : v \in VarValues}
Texts ==
    {<<"/">>, <<"B", " ", "{{.token}}">>, <<"{{.token}}">>, <<"a", "\"", "<">>,
     <<"a", "\\">>, <<"{{">>}

URLCalls ==
    {[fn |-> "replaceURLVars", url |-> t, vars |-> m, done |-> FALSE,
      out |-> [ok |-> FALSE, s |-> <<>>]] : t \in Texts, m \in Envs}

HeaderMaps ==
    {("Authorization" :> t) : t \in Texts}
    \cup {("Authorization" :> t) @@ ("Accept" :> u) : t, u \in Texts}

HeaderCalls ==
    {[fn |-> "setRequestHeaders", headers |-> h, vars |-> m, done |-> FALSE,
      out |-> [ok |-> FALSE, m |-> EmptyMap]] : h \in HeaderMaps, m \in Envs}

BodyMaps ==
    {EmptyMap}
    \cup {("ref" :> StrV(t)) @@ ("n" :> w) :
             t \in Texts, w \in {IntV(2), FloatV(7), BoolV(TRUE), NilV}}

BodyCalls ==
    {[fn |-> "replaceBodyVars", body |-> b, vars |-> m, done |-> FALSE,
      out |-> [ok |-> FALSE, m |-> EmptyMap]] : b \in BodyMaps, m \in Envs}

ApplyCheckJSONResponse ==
    /\ call.fn = "checkJSONResponse" /\ ~call.done
    /\ call' = [call EXCEPT !.done = TRUE,
                            !.out = checkJSONResponse(call.body, call.selector,
                                                      call.expectedValue, call.strict)]
    /\ UNCHANGED main

ApplySetUserVars ==
    /\ call.fn = "set" /\ ~call.done
    /\ call' = [call EXCEPT !.done = TRUE,
                            !.out = SetUserVars(call.setVars, call.body, EmptyMap, FALSE, <<>>)]
    /\ UNCHANGED main

ApplyReplaceURLVars ==
    /\ call.fn = "replaceURLVars" /\ ~call.done
    /\ call' = [call EXCEPT !.done = TRUE, !.out = replaceURLVars(call.url, call.vars)]
    /\ UNCHANGED main

ApplySetRequestHeaders ==
    /\ call.fn = "setRequestHeaders" /\ ~call.done
    /\ call' = [call EXCEPT !.done = TRUE, !.out = setRequestHeaders(call.headers, call.vars)]
    /\ UNCHANGED main

ApplyReplaceBodyVars ==
    /\ call.fn = "replaceBodyVars" /\ ~call.done
    /\ call' = [call EXCEPT !.done = TRUE, !.out = replaceBodyVars(call.body, call.vars)]
    /\ UNCHANGED main

\* Most -e options of one command line.
MaxUserVars == 2

\* The -e options of the model: a new variable, the same variable again, a
\* variable of the test file, a value with = in it, an empty value, and an
\* option without =.
UserVarEntries ==
    {<<"k", "=", "v">>, <<"k", "=", "w">>, <<"token", "=", "x">>,
     <<"k", "=", "a", "=", "=">>, <<"k", "=">>, <<"k">>}

EnvVarCalls ==
    {[fn |-> "processEnvVars", vars |-> IF isNil THEN EmptyMap ELSE FileVars,
      isNil |-> isNil, userVars |-> u, done |-> FALSE,
      out |-> [err |-> "nil", vars |-> EmptyMap]] :
        isNil \in BOOLEAN,
        u \in UNION {SeqsOfLen(UserVarEntries, n) : n \in 0..MaxUserVars}}

ApplyProcessEnvVars ==
    /\ call.fn = "processEnvVars" /\ ~call.done
    /\ call' = [call EXCEPT !.done = TRUE,
                            !.out = processEnvVars(call.vars, call.isNil, call.userVars)]
    /\ UNCHANGED main

UnitInit ==
    /\ Idle
    /\ \/ call \in EqualsCalls
       \/ call \in AssertionCalls
       \/ call \in SelectorCalls
       \/ call \in SetCalls
       \/ call \in URLCalls
       \/ call \in HeaderCalls
       \/ call \in BodyCalls
       \/ call \in EnvVarCalls

UnitNext ==
    \/ ApplyEquals
    \/ ApplyCheckAssertions
    \/ ApplyCheckJSONResponse
    \/ ApplySetUserVars
    \/ ApplyReplaceURLVars
    \/ ApplySetRequestHeaders
    \/ ApplyReplaceBodyVars
    \/ ApplyProcessEnvVars

UnitSpec == UnitInit /\ [][UnitNext]_state

\* ------------------------------------------------- reading the history

\* The variables the run started with.
InitialVars == IF varsNil THEN EmptyMap ELSE FileVars

\* A map after the stores ws, made in order.
RECURSIVE ApplyWrites(_, _)
ApplyWrites(m, ws) ==
    IF ws = <<>> THEN m
    ELSE ApplyWrites((Head(ws).name :> Head(ws).value) @@ m, Tail(ws))

\* The stores made by the calls before the k-th, in order.
RECURSIVE WritesBefore(_)
WritesBefore(k) ==
    IF k <= 1 THEN <<>> ELSE WritesBefore(k - 1) \o history[k - 1].res.writes

StageOrder == <<"substitute", "execute", "status", "fields", "capture">>

IsPrefix(a, b) == Len(a) <= Len(b) /\ SubSeq(b, 1, Len(a)) = a

Did(h, stage) == \E i \in 1..Len(h.res.steps) : h.res.steps[i] = stage

\* The call got a response from the server.
Received(h) == Did(h, "status")

IsText(resp) == resp.ctype = <<<<"text/plain">>>>
IsJSON(resp) == resp.ctype = <<<<"application/json", ";", " ", "charset=utf-8">>>>

\* The selector resolves in the body.
Resolves(selector, body) ==
    \E key \in DOMAIN body : selector \in {<<key>>, <<".", key>>}

KeyOf(selector) == selector[Len(selector)]

\* The field check of selector holds on the body: the selector resolves and
\* the value found prints like the expected one.
FieldHolds(selector, expect, body) ==
    /\ Resolves(selector, body)
    /\ IF expect.Strict
       THEN SprintS(body[KeyOf(selector)]) = SprintS(expect.Values[selector])
       ELSE SprintV(body[KeyOf(selector)]) = SprintV(expect.Values[selector])

\* The position of the first set directive whose source selector does not
\* resolve in the body, 0 when all resolve.
FirstUnresolved(setVars, body) ==
    IF \A i \in 1..Len(setVars) : Resolves(setVars[i].Key, body) THEN 0
    ELSE CHOOSE i \in 1..Len(setVars) :
            /\ ~Resolves(setVars[i].Key, body)
            /\ \A j \in 1..(i - 1) : Resolves(setVars[j].Key, body)

\* The stores the first n set directives make from the body.
StoresOf(setVars, body, n) ==
    [i \in 1..n |-> [name |-> setVars[i].Name, value |-> body[KeyOf(setVars[i].Key)]]]

\* The request at position j passes the --test filter.
Matches(j) == testname = "" \/ requests[j].Name = testname

\* runRequests' counters agree with the calls made: every call is counted in
\* the total, and every call that returned an error is counted as one failure.
Tallied ==
    /\ currentRequest = Len(history)
    /\ failCount = Cardinality({k \in 1..Len(history) : history[k].res.err # "nil"})

UsesVar(text, name) == \E i \in 1..Len(text) : text[i] = "{{." \o name \o "}}"

\* ------------------------------------------------------------- claims

\* C1: in a run, every request goes through its stages in the order
\* substitute, execute, (checks,) capture, and what request k sends is its URL,
\* headers and body substituted from the starting variables overwritten, in
\* order, by every store the set directives of the earlier calls made.
C1_SubstitutionSeesEarlierCaptures ==
    \A k \in 1..Len(history) :
        LET h == history[k]
            E == ApplyWrites(InitialVars, WritesBefore(k))
        IN  /\ Len(h.res.steps) >= 1
            /\ IsPrefix(h.res.steps, StageOrder)
            /\ (h.res.writes # <<>> => Did(h, "capture"))
            /\ (Did(h, "execute") =>
                   /\ h.res.sent.url = TemplateExecute(h.req.URL, E)
                   /\ h.res.sent = Substitute(h.req, E, headers).sent)

\* C1 witness: the first call stored created_id, the second call's URL uses
\* it and was sent with the stored value in it.
C1_Witness ==
    /\ Len(history) = 2
    /\ \E i \in 1..Len(history[1].res.writes) :
           history[1].res.writes[i].name = "created_id"
    /\ UsesVar(history[2].req.URL, "created_id")
    /\ Did(history[2], "execute")
    /\ history[2].res.sent.url # TemplateExecute(history[2].req.URL, InitialVars)

\* C2 (as claimed): two requests, the first gets its expected status and a
\* JSON body with an id and stores the id in created_id, the second uses
\* {{created_id}} in its URL and expects 200 and the id; the server answers
\* both with the same resource: the run returns 2 requests, 0 failed, whatever
\* the id is.
C2_ScenarioA ==
    (/\ pc = "done"
     /\ Len(history) = 2
     /\ history[1].req = CreateTodo
     /\ history[2].req = GetTodo(resource)
     /\ history[1].resp = JSONResponse(200, Full(resource))
     /\ history[2].resp = JSONResponse(200, Full(resource)))
    => (currentRequest = 2 /\ failCount = 0)

\* C3 (as claimed): a status mismatch is a failure and every field selector
\* of the expectation is still evaluated.
C3_MismatchStillChecksFields ==
    \A k \in 1..Len(history) :
        LET h == history[k]
        IN  (/\ Received(h)
             /\ IsJSON(h.resp) /\ h.resp.valid
             /\ h.resp.status # h.req.Expect.Status)
            => (/\ h.res.err # "nil"
                /\ DOMAIN h.res.fields = DOMAIN h.req.Expect.Values)

\* C3 (amended): a status mismatch is a failure of the request, counted once,
\* and ends it: no field selector is evaluated, no set directive is processed
\* and the variables are as before.
C3_MismatchEndsRequest ==
    /\ pc # "panicked" => Tallied
    /\ \A k \in 1..Len(history) :
        LET h == history[k]
        IN  (Did(h, "execute") /\ ~h.resp.neterr /\ h.resp.status # h.req.Expect.Status)
            => (/\ h.res.err = "status"
                /\ ~h.res.panicked
                /\ h.res.steps = <<"substitute", "execute", "status">>
                /\ h.res.fields = EmptyMap
                /\ h.res.failing = 0
                /\ h.res.writes = <<>>
                /\ h.res.vars = h.env)

\* C3 witness: a JSON answer with the resource in it and the wrong status, to
\* a request with field checks and set directives.
C3_Witness ==
    \E k \in 1..Len(history) :
        LET h == history[k]
        IN  /\ IsJSON(h.resp) /\ h.resp.valid
            /\ h.resp.status # h.req.Expect.Status
            /\ DOMAIN h.req.Expect.Values # {}
            /\ h.req.SetVars # <<>>
            /\ h.res.err = "status"
            /\ failCount >= 1

\* C4 (as claimed): a request that got a well-formed answer passes if and
\* only if the status is the expected one and no field assertion failed.
C4_PassIffStatusAndFields ==
    \A k \in 1..Len(history) :
        LET h == history[k]
        IN  (Received(h) /\ ~h.res.panicked /\ (IsText(h.resp) \/ h.resp.valid))
            => ((h.res.err = "nil")
                <=> (h.resp.status = h.req.Expect.Status /\ h.res.failing = 0))

\* C4 (amended): a request that got an answer passes if and only if the
\* status is the expected one and, when the answer is JSON, the body decodes,
\* every field check holds and every set directive's selector resolves; an
\* answer that is not JSON passes on the status alone.  The class of the
\* status plays no part, and a failed request is one failure and one request
\* of the total.
C4_PassIffStatusFieldsAndCaptures ==
    /\ pc # "panicked" => Tallied
    /\ \A k \in 1..Len(history) :
        LET h == history[k]
            e == h.req.Expect
        IN  (Did(h, "execute") /\ ~h.resp.neterr /\ ~h.res.panicked)
            => ((h.res.err = "nil")
                <=> (/\ h.resp.status = e.Status
                     /\ \/ IsText(h.resp)
                        \/ /\ h.resp.valid
                           /\ \A sel \in DOMAIN e.Values : FieldHolds(sel, e, h.resp.body)
                           /\ FirstUnresolved(h.req.SetVars, h.resp.body) = 0))

\* C4 witness: an expected 404 that is received passes, an expected 200
\* answered by 404 fails, and the run returns 2 requests, 1 failed.
C4_Witness ==
    /\ pc = "done"
    /\ Len(history) = 2
    /\ history[1].req.Expect.Status = 404 /\ history[1].resp.status = 404
    /\ history[1].res.err = "nil"
    /\ history[2].req.Expect.Status = 200 /\ history[2].resp.status = 404
    /\ history[2].res.err = "status"
    /\ currentRequest = 2 /\ failCount = 1

\* C5: a request that ends with an error while substituting or while making
\* the HTTP call is one failure of the run and changes nothing else: no check
\* is made, no variable stored, the loop goes on, and when runRequests returns
\* every request that passes the filter has been called.
C5_EarlyErrorFailsOneRequestOnly ==
    /\ pc # "panicked" => Tallied
    /\ \A k \in 1..Len(history) :
        LET h == history[k]
        IN  h.res.err \in {"substitute", "transport"}
            => (/\ ~h.res.panicked
                /\ ~Did(h, "status")
                /\ h.res.fields = EmptyMap
                /\ h.res.writes = <<>>
                /\ h.res.vars = h.env
                /\ idx > h.i
                /\ (k = Len(history) => pc \in {"run", "done"}))
    /\ pc = "done" =>
          \A j \in 1..Len(requests) :
              Matches(j) => \E k \in 1..Len(history) : history[k].i = j

\* C5 witness: the first request failed while substituting, the second was
\* called, got its answer and passed, and the run returned 2 requests, 1
\* failed.
C5_Witness ==
    /\ pc = "done"
    /\ Len(history) = 2
    /\ history[1].res.err = "substitute"
    /\ Did(history[2], "capture")
    /\ history[2].res.err = "nil"
    /\ currentRequest = 2 /\ failCount = 1

\* C6: requests are called in file order; with a test name given, a request
\* of another name is never called, keeps its templates, stores no variable and
\* is counted in neither counter, and the total runRequests returns is the
\* number of requests of that name.
C6_FilterSkipsOtherNames ==
    /\ currentRequest = Len(history)
    /\ failCount <= currentRequest
    /\ \A k \in 1..Len(history) :
          /\ history[k].count = k
          /\ history[k].i \in 1..Len(requests)
          /\ Matches(history[k].i)
          /\ (k > 1 => history[k - 1].i < history[k].i)
    /\ \A j \in 1..Len(requests) :
          ~Matches(j) => requests[j] \in Catalogue(resource)
    /\ vars = ApplyWrites(InitialVars, WritesBefore(Len(history) + 1))
    /\ pc = "done" =>
          currentRequest = Cardinality({j \in 1..Len(requests) : Matches(j)})

\* C6 witness: with --test B a request named A was passed over and the run
\* returned a total of 1.
C6_Witness ==
    /\ pc = "done"
    /\ testname = "B"
    /\ Len(requests) = 2
    /\ requests[1].Name = "A" /\ requests[2].Name = "B"
    /\ currentRequest = 1
    /\ history[1].i = 2

\* C7 (as claimed): an answer that is not JSON fails a request that has field
\* checks; without field checks the status decides.
C7_NonJSONFailsFieldChecks ==
    \A k \in 1..Len(history) :
        LET h == history[k]
        IN  (Received(h) /\ IsText(h.resp))
            => IF DOMAIN h.req.Expect.Values # {}
               THEN h.res.err # "nil"
               ELSE (h.res.err = "nil") <=> (h.resp.status = h.req.Expect.Status)

\* C7 (amended): an answer that is not JSON is decided by the status check
\* alone, with or without field checks in the expectation: the request passes
\* when the status is the expected one and fails on the status otherwise.
C7_NonJSONDecidedByStatus ==
    \A k \in 1..Len(history) :
        LET h == history[k]
        IN  (Did(h, "execute") /\ ~h.resp.neterr /\ IsText(h.resp))
            => (/\ h.res.err \in {"nil", "status"}
                /\ (h.res.err = "nil") <=> (h.resp.status = h.req.Expect.Status)
                /\ ~h.res.panicked)

\* C7 witness: two text answers with the expected status, one to a request
\* without field checks and one to a request with field checks; both pass.
C7_Witness ==
    /\ Len(history) = 2
    /\ \A k \in 1..2 :
          /\ IsText(history[k].resp)
          /\ history[k].resp.status = history[k].req.Expect.Status
          /\ history[k].res.err = "nil"
    /\ DOMAIN history[1].req.Expect.Values = {}
    /\ DOMAIN history[2].req.Expect.Values # {}

\* C8: a text/plain answer to a request with field assertions: no field
\* assertion is evaluated, no set directive processed, and the request passes
\* exactly when the status is the expected one.
C8_TextAnswerSkipsFieldChecks ==
    \A k \in 1..Len(history) :
        LET h == history[k]
        IN  (/\ Did(h, "execute") /\ ~h.resp.neterr
             /\ IsText(h.resp)
             /\ DOMAIN h.req.Expect.Values # {})
            => (/\ ~Did(h, "fields")
                /\ h.res.fields = EmptyMap
                /\ h.res.failing = 0
                /\ h.res.writes = <<>>
                /\ h.res.vars = h.env
                /\ (h.resp.status = h.req.Expect.Status => h.res.err = "nil")
                /\ (h.resp.status # h.req.Expect.Status => h.res.err = "status"))

\* C8 witness: a request with field assertions got text/plain with the
\* expected status and passed.
C8_Witness ==
    \E k \in 1..Len(history) :
        LET h == history[k]
        IN  /\ IsText(h.resp)
            /\ DOMAIN h.req.Expect.Values # {}
            /\ h.resp.status = h.req.Expect.Status
            /\ h.res.err = "nil"
            /\ pc = "done" /\ failCount = 0

\* C9: a field selector that does not resolve in the response body is one
\* failed assertion and no abort: every selector of the expectation is
\* evaluated, the failures counted are the selectors whose check does not
\* hold, the set directives are processed after them, and the request is
\* failed.
C9_UnresolvedSelectorIsOneFailure ==
    \A k \in 1..Len(history) :
        LET h == history[k]
            e == h.req.Expect
            body == h.resp.body
            j == FirstUnresolved(h.req.SetVars, body)
            n == IF j = 0 THEN Len(h.req.SetVars) ELSE j - 1
        IN  (/\ Received(h) /\ ~h.res.panicked
             /\ h.resp.status = e.Status /\ IsJSON(h.resp) /\ h.resp.valid
             /\ \E sel \in DOMAIN e.Values : ~Resolves(sel, body))
            => (/\ DOMAIN h.res.fields = DOMAIN e.Values
                /\ \A sel \in DOMAIN e.Values :
                      (h.res.fields[sel] = "fail") <=> ~FieldHolds(sel, e, body)
                /\ h.res.failing =
                      Cardinality({sel \in DOMAIN e.Values : ~FieldHolds(sel, e, body)})
                /\ h.res.steps = StageOrder
                /\ h.res.writes = StoresOf(h.req.SetVars, body, n)
                /\ h.res.err \in {"conditions", "capture"})

\* C9 witness: of two selectors one resolved and held and one did not resolve;
\* the request counted 1 failing condition and its set directive was
\* processed.
C9_Witness ==
    \E k \in 1..Len(history) :
        LET h == history[k]
        IN  /\ \E sel \in DOMAIN h.res.fields :
                  h.res.fields[sel] = "fail" /\ ~Resolves(sel, h.resp.body)
            /\ \E sel \in DOMAIN h.res.fields : h.res.fields[sel] = "ok"
            /\ h.res.failing = 1
            /\ h.res.err = "conditions"
            /\ Len(h.res.writes) = Len(h.req.SetVars)
            /\ h.res.writes # <<>>

\* C10: when the source selector of a set directive does not resolve, the
\* request returns an error and is counted as failed, the directives after it
\* are not processed, the stores of the directives before it stay in the
\* variables, and every field assertion was evaluated before.
C10_CaptureFailureEndsRequest ==
    /\ pc # "panicked" => Tallied
    /\ \A k \in 1..Len(history) :
        LET h == history[k]
            body == h.resp.body
            j == FirstUnresolved(h.req.SetVars, body)
        IN  (/\ Received(h) /\ ~h.res.panicked
             /\ h.resp.status = h.req.Expect.Status /\ IsJSON(h.resp) /\ h.resp.valid
             /\ j > 0)
            => (/\ h.res.err = "capture"
                /\ h.res.writes = StoresOf(h.req.SetVars, body, j - 1)
                /\ h.res.vars = ApplyWrites(h.env, h.res.writes)
                /\ (IF k = Len(history) THEN vars ELSE history[k + 1].env) = h.res.vars
                /\ h.res.steps = StageOrder
                /\ DOMAIN h.res.fields = DOMAIN h.req.Expect.Values
                /\ h.res.failing =
                      Cardinality({sel \in DOMAIN h.res.fields : h.res.fields[sel] = "fail"}))

\* C10 witness: the second of three set directives did not resolve: the first
\* one's variable is stored, the third one's is not, a field assertion had
\* failed, and the request is counted as failed.
C10_Witness ==
    \E k \in 1..Len(history) :
        LET h == history[k]
        IN  /\ Len(h.req.SetVars) = 3
            /\ FirstUnresolved(h.req.SetVars, h.resp.body) = 2
            /\ h.res.err = "capture"
            /\ h.req.SetVars[1].Name \in DOMAIN h.res.vars
            /\ h.req.SetVars[1].Name \notin DOMAIN h.env
            /\ h.req.SetVars[3].Name \notin DOMAIN h.res.vars
            /\ \E sel \in DOMAIN h.res.fields : h.res.fields[sel] = "fail"
            /\ k = Len(history) /\ pc = "run" /\ failCount >= 1
            /\ vars = h.res.vars

\* Helpers for the functions applied on their own.

Applied(fn) == call.fn = fn /\ call.done

\* The JSON or YAML type of a value: both Go number types are numbers.
TypeOf(v) == IF v.t \in {"int", "float"} THEN "number" ELSE v.t

NumericRules == {"lt", "gt", "le", "ge"}

\* The rule names the documentation of checkAssertions lists.
DocumentedRules == {"equals", "lt", "gt", "le", "ge", "exists"}

Parses(v) == ParseFloat(SprintV(v)).ok
NumberOf(v) == ParseFloat(SprintV(v)).n

\* The selector names the key foo of the body, with or without the dot.
SelectsFoo(selector) == selector \in {<<"foo">>, <<".", "foo">>}

\* C11: loose equals succeeds exactly when the received and the comparison
\* value have the same string form (their %v rendering), whatever their types:
\* the number 123 equals the string "123"; with different string forms it
\* fails.  The same holds for the rule equals of checkAssertions.
C11_LooseEqualsByStringForm ==
    /\ Applied("equals") =>
          (call.out <=> SprintV(call.val) = SprintV(call.comparison))
    /\ (Applied("checkAssertions") /\ DOMAIN call.rules = {"equals"}) =>
          /\ (SprintV(call.value) = SprintV(call.rules["equals"]) => call.out.kind = "nil")
          /\ (SprintV(call.value) # SprintV(call.rules["equals"]) =>
                 call.out.kind = "expected")

\* C11 witness: the received number 123 was compared with the string "123"
\* and equals returned true.
C11_Witness ==
    /\ Applied("equals")
    /\ call.val = FloatV(123)
    /\ call.comparison = StrV(<<"1", "2", "3">>)
    /\ call.out = TRUE

\* C12: with strict set, a field check of a received value and an expected
\* value of different types (string, number, boolean, null) that have the same
\* string form fails: a number is never equal to the string with its digits.
C12_StrictRejectsOtherTypes ==
    (/\ Applied("checkJSONResponse") /\ call.strict /\ SelectsFoo(call.selector)
     /\ TypeOf(call.body["foo"]) # TypeOf(call.expectedValue)
     /\ SprintV(call.body["foo"]) = SprintV(call.expectedValue))
    => call.out = "fail"

\* C12 witness: the response number 10 was checked strictly against the
\* expected string "10" and the check failed.
C12_Witness ==
    /\ Applied("checkJSONResponse") /\ call.strict
    /\ call.selector = <<"foo">>
    /\ call.body["foo"] = FloatV(10)
    /\ call.expectedValue = StrV(<<"1", "0">>)
    /\ call.out = "fail"

\* C13 (as claimed): with strict set, a field check succeeds whenever the
\* response value and the expected value of the test file have the same type
\* and the same value: an expected number 10 matches the JSON number 10.
C13_StrictAcceptsSameTypeAndValue ==
    (/\ Applied("checkJSONResponse") /\ call.strict /\ SelectsFoo(call.selector)
     /\ TypeOf(call.body["foo"]) = TypeOf(call.expectedValue)
     /\ call.body["foo"].n = call.expectedValue.n
     /\ call.body["foo"].s = call.expectedValue.s
     /\ call.body["foo"].b = call.expectedValue.b)
    => call.out = "ok"

\* The outcome of one rule applied alone to the call's received value.
Alone(k, comparisonValue) ==
    checkAssertions(call.value, (k :> comparisonValue), <<k>>).kind

\* C14: whenever checkAssertions applies lt, gt, le or ge and the received
\* value or the rule's comparison value does not print as a number, it returns
\* at that rule with a parse error that names the value, never with the
\* comparison-failed error and never with success.
C14_UnparseableOperandIsParseError ==
    Applied("checkAssertions") =>
        \A i \in 1..call.out.visited :
            LET k == call.order[i]
            IN  (k \in NumericRules /\ (~Parses(call.value) \/ ~Parses(call.rules[k])))
                => /\ i = call.out.visited
                   /\ call.out.kind = "parse"
                   /\ call.out.rule = k
                   /\ call.out.bad \in {call.value, call.rules[k]}
                   /\ ~Parses(call.out.bad)

\* C14 witness: gt was applied to the received number 2 and a null comparison
\* value, after an equals that held, and the call ended with a parse error.
C14_Witness ==
    /\ Applied("checkAssertions")
    /\ call.value = FloatV(2)
    /\ call.order = <<"equals", "gt">>
    /\ call.rules["gt"] = NilV
    /\ call.out.kind = "parse"
    /\ call.out.bad = NilV

\* C15: for a received and a comparison value that parse to the same number,
\* le and ge succeed and lt and gt fail; for values that parse to different
\* numbers exactly one of lt and gt succeeds, le agrees with not-gt and ge
\* with not-lt.
C15_NumericRulesAreAnOrder ==
    (/\ Applied("checkAssertions")
     /\ Cardinality(DOMAIN call.rules) = 1
     /\ DOMAIN call.rules \subseteq NumericRules
     /\ Parses(call.value)
     /\ \A k \in DOMAIN call.rules : Parses(call.rules[k]))
    => LET k == call.order[1]
           b == call.rules[k]
           holds == [r \in NumericRules |-> Alone(r, b) = "nil"]
       IN  /\ call.out.kind \in {"nil", "compare"}
           /\ (call.out.kind = "nil") = holds[k]
           /\ NumberOf(call.value) = NumberOf(b) =>
                 holds["le"] /\ holds["ge"] /\ ~holds["lt"] /\ ~holds["gt"]
           /\ NumberOf(call.value) # NumberOf(b) =>
                 /\ holds["lt"] # holds["gt"]
                 /\ holds["le"] = ~holds["gt"]
                 /\ holds["ge"] = ~holds["lt"]
           /\ holds["lt"] = (NumberOf(call.value) < NumberOf(b))

\* C15 witness: le held for the received string "123" and the number 123.
C15_Witness ==
    /\ Applied("checkAssertions")
    /\ call.value = StrV(<<"1", "2", "3">>)
    /\ call.order = <<"le">>
    /\ call.rules["le"] = IntV(123)
    /\ call.out.kind = "nil"

\* C16: a rule set with a rule name other than equals, lt, gt, le, ge, exists
\* never makes checkAssertions succeed, and when all its known rules hold the
\* error is the invalid-rule error naming a rule of the set that is not known.
C16_UnknownRuleNeverSucceeds ==
    (Applied("checkAssertions") /\ DOMAIN call.rules \ DocumentedRules # {})
    => /\ call.out.kind # "nil"
       /\ (\A k \in DOMAIN call.rules \cap DocumentedRules :
              Alone(k, call.rules[k]) = "nil")
             => /\ call.out.kind = "invalid"
                /\ call.out.rule \in DOMAIN call.rules \ DocumentedRules

\* C16 witness: the rule set held an equals that holds and the rule regex; the
\* loop visited equals first and returned the invalid-rule error for regex.
C16_Witness ==
    /\ Applied("checkAssertions")
    /\ call.order = <<"equals", "regex">>
    /\ call.out.kind = "invalid"
    /\ call.out.rule = "regex"
    /\ call.out.visited = 2

\* The selector does not start with a dot.
Dotless(selector) == selector = <<>> \/ selector[1] # "."

\* C17 (as claimed): a selector s that does not start with a dot gives, in a
\* field check and in a set directive, the same result as the selector made of
\* a dot followed by s, for every response body.
C17_LeadingDotIsOptional ==
    /\ (Applied("checkJSONResponse") /\ Dotless(call.selector)) =>
          call.out = checkJSONResponse(call.body, <<".">> \o call.selector,
                                       call.expectedValue, call.strict)
    /\ (Applied("set") /\ Dotless(call.setVars[1].Key)) =>
          call.out = SetUserVars(<<[call.setVars[1] EXCEPT !.Key = <<".">> \o @]>>,
                                 call.body, EmptyMap, FALSE, <<>>)

\* Every selector of the model that does not start with a dot and is not
\* empty does give the same result as with the dot.
DotlessSelectorsAgree ==
    /\ (Applied("checkJSONResponse") /\ Dotless(call.selector) /\ call.selector # <<>>) =>
          call.out = checkJSONResponse(call.body, <<".">> \o call.selector,
                                       call.expectedValue, call.strict)
    /\ (Applied("set") /\ Dotless(call.setVars[1].Key) /\ call.setVars[1].Key # <<>>) =>
          call.out = SetUserVars(<<[call.setVars[1] EXCEPT !.Key = <<".">> \o @]>>,
                                 call.body, EmptyMap, FALSE, <<>>)

\* The variables a request's URL, the environment's headers or the request's
\* body refer to.
Referenced(req, hdrs) ==
    {name \in {"created_id", "token"} :
        \/ UsesVar(req.URL, name)
        \/ \E k \in DOMAIN hdrs : UsesVar(hdrs[k], name)
        \/ \E k \in DOMAIN req.Body : req.Body[k].t = "str" /\ UsesVar(req.Body[k].s, name)}

\* C18 (as claimed): a request whose URL, headers or body refer to a variable
\* that is absent from the environment fails in substitution with an error,
\* and is not sent.
C18_UndefinedVariableFails ==
    \A k \in 1..Len(history) :
        LET h == history[k]
        IN  (Referenced(h.req, headers) \ DOMAIN h.env # {})
            => (h.res.err = "substitute" /\ ~Did(h, "execute"))

\* The text holds a placeholder, closed or not.
HasPlaceholder(text) == \E i \in 1..Len(text) : IsAction(text[i]) \/ text[i] = "{{"

\* A body value and the value substitution returns for it are the same but
\* for the Go type of a number.
SameJSON(v, w) == TypeOf(v) = TypeOf(w) /\ v.n = w.n /\ v.s = w.s /\ v.b = w.b

\* C19 (as claimed): for every value of a variable (strings with a quote or a
\* backslash, numbers, booleans, null) substitution into headers or a body that
\* refer to it succeeds and gives a structure with the same keys in which only
\* the placeholder was replaced by the value's rendering.
C19_SubstitutionKeepsJSONSyntax ==
    /\ (/\ Applied("setRequestHeaders")
        /\ "token" \in DOMAIN call.vars
        /\ \A k \in DOMAIN call.headers : TemplateParseOK(call.headers[k]))
       => /\ call.out.ok
          /\ DOMAIN call.out.m = DOMAIN call.headers
          /\ \A k \in DOMAIN call.headers :
                call.out.m[k] = TemplateExecute(call.headers[k], call.vars)
    /\ (/\ Applied("replaceBodyVars")
        /\ "token" \in DOMAIN call.vars
        /\ \A k \in DOMAIN call.body :
              call.body[k].t = "str" => TemplateParseOK(call.body[k].s))
       => /\ call.out.ok
          /\ DOMAIN call.out.m = DOMAIN call.body
          /\ \A k \in DOMAIN call.body :
                IF call.body[k].t = "str"
                THEN call.out.m[k] = StrV(TemplateExecute(call.body[k].s, call.vars))
                ELSE SameJSON(call.out.m[k], call.body[k])

\* Substitution of a value without a quote or a backslash does keep the JSON
\* syntax.
PlainValuesKeepJSONSyntax ==
    (/\ call.fn \in {"setRequestHeaders", "replaceBodyVars"}
     /\ \A name \in DOMAIN call.vars :
           \A i \in 1..Len(call.vars[name].s) : call.vars[name].s[i] \notin {"\"", "\\"})
    => C19_SubstitutionKeepsJSONSyntax

\* The call's URL, header values or body strings hold no placeholder.
PlainInput ==
    CASE call.fn = "replaceURLVars" -> ~HasPlaceholder(call.url)
      [] call.fn = "setRequestHeaders" ->
            \A k \in DOMAIN call.headers : ~HasPlaceholder(call.headers[k])
      [] call.fn = "replaceBodyVars" ->
            \A k \in DOMAIN call.body :
                call.body[k].t = "str" => ~HasPlaceholder(call.body[k].s)
      [] OTHER -> FALSE

\* C20 (as claimed): on a URL, a header map or a body map without placeholders
\* and with any variables, replaceURLVars, setRequestHeaders and
\* replaceBodyVars return a value equal to their input.
C20_SubstitutionIsIdentity ==
    (call.done /\ PlainInput) =>
        CASE call.fn = "replaceURLVars" -> call.out = [ok |-> TRUE, s |-> call.url]
          [] call.fn = "setRequestHeaders" -> call.out = [ok |-> TRUE, m |-> call.headers]
          [] call.fn = "replaceBodyVars" -> call.out = [ok |-> TRUE, m |-> call.body]

\* C20 (amended): on an input without placeholders replaceURLVars and
\* setRequestHeaders return their input, and replaceBodyVars returns a map with
\* the same keys in which every string, boolean and null is the input's and
\* every number is the input's number as a float64.
C20_SubstitutionKeepsPlainInput ==
    (call.done /\ PlainInput) =>
        CASE call.fn = "replaceURLVars" -> call.out = [ok |-> TRUE, s |-> call.url]
          [] call.fn = "setRequestHeaders" -> call.out = [ok |-> TRUE, m |-> call.headers]
          [] call.fn = "replaceBodyVars" ->
                /\ call.out.ok
                /\ DOMAIN call.out.m = DOMAIN call.body
                /\ \A k \in DOMAIN call.body :
                      call.out.m[k] = IF TypeOf(call.body[k]) = "number"
                                      THEN FloatV(call.body[k].n)
                                      ELSE call.body[k]

\* C20 witness: a body without placeholders, holding a string with a quote
\* and the int 2, came back with the same string and the float64 2.
C20_Witness ==
    /\ Applied("replaceBodyVars")
    /\ "token" \in DOMAIN call.vars
    /\ DOMAIN call.body = {"ref", "n"}
    /\ call.body["ref"] = StrV(<<"a", "\"", "<">>)
    /\ call.body["n"] = IntV(2)
    /\ call.out.ok
    /\ call.out.m["ref"] = call.body["ref"]
    /\ call.out.m["n"] = FloatV(2)

\* C21: when the HTTP call fails with a network error the request returns the
\* error at once: it went through substitution and the call only, no status
\* check, field check or set directive was made, the variables are those it
\* started with, and it is counted as one failure.
C21_TransportErrorAbortsRequest ==
    /\ \A k \in 1..Len(history) :
          LET h == history[k]
          IN  (Did(h, "execute") /\ h.resp.neterr)
              => /\ h.res.err = "transport"
                 /\ h.res.steps = <<"substitute", "execute">>
                 /\ h.res.fields = EmptyMap /\ h.res.failing = 0
                 /\ h.res.writes = <<>>
                 /\ h.res.vars = h.env
                 /\ (IF k = Len(history) THEN vars ELSE history[k + 1].env) = h.env
    /\ pc = "done" => Tallied

\* C21 witness: the second request of a run, one with field checks and set
\* directives, got a network error after the first had stored a variable.
C21_Witness ==
    /\ pc = "done"
    /\ Len(history) = 2
    /\ history[1].res.writes # <<>>
    /\ history[2].resp.neterr
    /\ history[2].req.SetVars # <<>>
    /\ DOMAIN history[2].req.Expect.Values # {}
    /\ history[2].res.err = "transport"
    /\ vars = history[1].res.vars
    /\ failCount = 1

\* C22 (as claimed): for every loaded test set, one that declares no vars
\* included, and with every HTTP call returning, no request ends the process:
\* the run goes on to its end, where the total and failed counts are reported.
C22_NoRequestEndsTheProcess ==
    /\ pc # "panicked"
    /\ \A k \in 1..Len(history) : ~history[k].res.panicked

\* The variables after the -e options are merged: each option's text before
\* its first = names the variable, the text after it is the value.
RECURSIVE Merged(_, _)
Merged(m, userVars) ==
    IF userVars = <<>> THEN m
    ELSE LET s == Head(userVars)
             i == IndexOf(s, "=")
         IN  Merged((Spell(SubSeq(s, 1, i - 1)) :> StrV(SubSeq(s, i + 1, Len(s)))) @@ m,
                    Tail(userVars))

\* Every option has the form key=value.
WellFormed(userVars) == \A i \in 1..Len(userVars) : IndexOf(userVars[i], "=") > 1

\* C23 (as claimed): for every list of key=value options, with any value
\* text, processEnvVars returns no error and leaves the environment mapping
\* each key to its value, a later option replacing an earlier one and an option
\* replacing a variable of the file, every other variable unchanged.
C23_CommandLineVarsAreMerged ==
    (Applied("processEnvVars") /\ WellFormed(call.userVars))
    => /\ call.out.err = "nil"
       /\ call.out.vars = Merged(call.vars, call.userVars)

\* With a vars section in the file and no = in any value, the options are
\* merged as claimed.
PlainCommandLineVarsAreMerged ==
    (/\ Applied("processEnvVars") /\ WellFormed(call.userVars) /\ ~call.isNil
     /\ \A i \in 1..Len(call.userVars) : Len(Split(call.userVars[i], "=")) = 2)
    => /\ call.out.err = "nil"
       /\ call.out.vars = Merged(call.vars, call.userVars)

\* The call got a decodable JSON answer with the expected status.
ReachedChecks(h) ==
    /\ Received(h)
    /\ h.resp.status = h.req.Expect.Status
    /\ IsJSON(h.resp) /\ h.resp.valid

\* The call stopped at the status check or at the Content-Type test.
StoppedBeforeChecks(h) ==
    Received(h) /\ (h.resp.status # h.req.Expect.Status \/ ~IsJSON(h.resp))

\* C28: when the status matches and the response is JSON, the set directives
\* of a request are executed even if field checks of it failed: every
\* directive's value is stored, the request returns the failed-conditions
\* error, and the next request starts from the variables with the stored
\* values.  When the status does not match or the response is not JSON,
\* nothing is stored and the next request starts from the same variables.
C28_CapturesSurviveFailedChecks ==
    \A k \in 1..Len(history) :
        LET h == history[k]
            setVars == h.req.SetVars
        IN  /\ (/\ ReachedChecks(h) /\ ~h.res.panicked
                /\ FirstUnresolved(setVars, h.resp.body) = 0)
               => /\ h.res.writes = StoresOf(setVars, h.resp.body, Len(setVars))
                  /\ h.res.vars = ApplyWrites(h.env, h.res.writes)
                  /\ (h.res.failing > 0 => h.res.err = "conditions")
                  /\ (k < Len(history) => history[k + 1].env = h.res.vars)
                  /\ (k = Len(history) => vars = h.res.vars)
            /\ StoppedBeforeChecks(h)
               => /\ h.res.writes = <<>>
                  /\ h.res.vars = h.env
                  /\ (k < Len(history) => history[k + 1].env = h.env)
                  /\ (k = Len(history) => vars = h.env)

\* A request with a failed field check stores a variable, is counted as a
\* failure, and the next request is sent with the stored value in its URL;
\* and a request after a status mismatch is sent.
C28_Witness ==
    /\ Len(history) = 2
    /\ ReachedChecks(history[1])
    /\ history[1].res.failing > 0
    /\ history[1].res.err = "conditions"
    /\ history[1].res.writes # <<>>
    /\ "created_id" \in DOMAIN history[2].env
    /\ "created_id" \notin DOMAIN history[1].env
    /\ history[2].res.sent.url = <<"/">> \o SprintV(history[2].env["created_id"])
    /\ failCount >= 1

\* A text answer with the expected status stores nothing: the next request
\* starts from the same variables.
C28_NothingStoredWitness ==
    /\ Len(history) = 2
    /\ StoppedBeforeChecks(history[1]) /\ history[1].req.SetVars # <<>>
    /\ history[1].resp.status = history[1].req.Expect.Status
    /\ history[2].env = history[1].env

\* C30: the outcome of checkAssertions on a rule set does not depend on the
\* order in which the map's rules are visited: it succeeds exactly when every
\* rule of the set, applied alone, holds for the received value (exists
\* holding always), and then it has visited every rule; every other order of
\* the same rules succeeds or fails alike.  Only the error returned may differ.
C30_OutcomeIsOrderIndependent ==
    Applied("checkAssertions") =>
        LET D == DOMAIN call.rules
            allHold == \A k \in D : Alone(k, call.rules[k]) = "nil"
        IN  /\ (call.out.kind = "nil") <=> allHold
            /\ call.out.kind = "nil" => call.out.visited = Cardinality(D)
            /\ \A o \in Orders(D) :
                  (checkAssertions(call.value, call.rules, o).kind = "nil") <=> allHold
            /\ "exists" \in D => Alone("exists", call.rules["exists"]) = "nil"

\* Two rules, the one visited first holds and the second fails, and the other
\* order returns another error.
C30_Witness ==
    /\ Applied("checkAssertions")
    /\ Len(call.order) = 2
    /\ Alone(call.order[1], call.rules[call.order[1]]) = "nil"
    /\ call.out.kind # "nil"
    /\ call.out.visited = 2
    /\ call.out.rule = call.order[2]

\* Two failing rules: which error is returned depends on the order.
C30_ErrorVariesWitness ==
    /\ Applied("checkAssertions")
    /\ Len(call.order) = 2
    /\ \E o \in Orders(DOMAIN call.rules) :
          checkAssertions(call.value, call.rules, o).kind # call.out.kind
    /\ call.out.kind # "nil"

\* The calls of request made with the label values l, and those of them that
\* returned an error.
Made(l) == {k \in 1..Len(history) : history[k].labels = l}
Failed(l) == {k \in Made(l) : history[k].res.err # "nil"}

\* The label values of the calls made and of the series of both counters.
LabelSets ==
    {history[k].labels : k \in 1..Len(history)}
    \cup DOMAIN requestsProcessed \cup DOMAIN requestErrors

\* The call just made is not yet recorded as a request.
Unrecorded(l) ==
    IF pc = "record" /\ history[Len(history)].labels = l THEN 1 ELSE 0

\* C25: in monitor mode, for every label set the requests-total counter is
\* the number of requests executed with it (each request counted once, when
\* its iteration ends) and the errors counter is the number of them that
\* failed: a failed request counts once, however many of its field checks
\* failed, and a request that passed does not count.
C25_CountersMatchRequests ==
    \A l \in LabelSets :
        /\ Count(requestsProcessed, l) = Cardinality(Made(l)) - Unrecorded(l)
        /\ Count(requestErrors, l) = Cardinality(Failed(l))

\* A request with two failed field checks has been executed and recorded: its
\* errors counter and its requests counter are both 1.
C25_Witness ==
    /\ pc = "run"
    /\ Len(history) = 1
    /\ history[1].res.failing = 2
    /\ Count(requestErrors, history[1].labels) = 1
    /\ Count(requestsProcessed, history[1].labels) = 1

\* The variables the test file and the command line give.
StartVars == FileVars

\* The calls of request made in run n, in call order.
CallsOfRun(n) == {k \in 1..Len(history) : history[k].run = n}

\* The stores made by the calls of the same run before the k-th.
RECURSIVE WritesOfRunBefore(_, _)
WritesOfRunBefore(k, j) ==
    IF j >= k THEN <<>>
    ELSE (IF history[j].run = history[k].run THEN history[j].res.writes ELSE <<>>)
         \o WritesOfRunBefore(k, j + 1)

\* C24 (as claimed): every run of runRequests, each repetition in monitor mode
\* too, starts from the initial variables: a request sees the initial
\* variables and what the requests before it in the same run have captured,
\* and nothing that a request of an earlier run has captured.
C24_EveryRunStartsFromInitialVars ==
    \A k \in 1..Len(history) :
        history[k].env = ApplyWrites(StartVars, WritesOfRunBefore(k, 1))

\* Within the first run the variables are the initial ones and the captures
\* made so far.
FirstRunStartsFromInitialVars ==
    \A k \in CallsOfRun(1) :
        history[k].env = ApplyWrites(StartVars, WritesOfRunBefore(k, 1))

\* The variables are never reset: every call starts from the variables the
\* call before it left, across runs too.
VarsPersistAcrossRuns ==
    \A k \in 1..Len(history) :
        history[k].env = IF k = 1 THEN StartVars ELSE history[k - 1].res.vars

\* The first request of the second run is sent with the id that the last
\* request of the first run has captured.
VarsPersistWitness ==
    \E k \in CallsOfRun(2) :
        /\ k - 1 \in CallsOfRun(1)
        /\ history[k].i = 1 /\ history[k - 1].i = 2
        /\ "created_id" \notin DOMAIN history[1].env
        /\ history[k - 1].res.writes # <<>>
        /\ history[k].res.sent.url = <<"/">> \o SprintV(history[k].env["created_id"])

\* The request at position i as the test file gives it.
RECURSIVE FirstCallOf(_, _)
FirstCallOf(i, k) ==
    IF history[k].i = i THEN k ELSE FirstCallOf(i, k + 1)
Original(i) ==
    IF \E k \in 1..Len(history) : history[k].i = i
    THEN history[FirstCallOf(i, 1)].req
    ELSE requests[i]

\* The body a request sends for the body map b: as a form, every value
\* printed with %s.
SentBody(req, b) ==
    IF req.ContentType \in FormTypes THEN [k \in DOMAIN b |-> StrV(SprintS(b[k]))] ELSE b

\* C26 (as claimed): executing a request leaves the request as the test file
\* gives it: its body map still holds the templates, and when the request is
\* executed again its body is substituted from the variables current at that
\* time.
C26_RequestSpecIsUnchanged ==
    /\ \A i \in 1..Len(requests) : requests[i].Body = Original(i).Body
    /\ \A k \in 1..Len(history) :
          LET h == history[k]
              b == replaceBodyVars(Original(h.i).Body, h.env)
          IN  (h.res.err # "substitute" /\ b.ok) => h.res.sent.body = SentBody(h.req, b.m)

\* What the code does: the body map of a request is, after its first
\* execution, the body that execution sent, and every later execution sends
\* that body again.
BodyIsThatOfFirstExecution ==
    \A k \in 1..Len(history) :
        LET h == history[k]
            first == history[FirstCallOf(h.i, 1)]
            b == replaceBodyVars(first.req.Body, first.env)
        IN  (first.res.err # "substitute" /\ h.res.err # "substitute")
            => /\ h.res.Body = b.m
               /\ h.res.sent.body = SentBody(h.req, h.res.Body)

\* The update is executed in the second run with created_id set, and its
\* body still holds what the first run substituted when it was not.
StaleBodyWitness ==
    \E k \in CallsOfRun(2) :
        /\ history[k].i = 1
        /\ "ref" \in DOMAIN history[k].res.sent.body
        /\ "created_id" \in DOMAIN history[k].env
        /\ history[k].res.sent.body["ref"] = StrV(TemplatePrint(NilV))

\* The Content-Type request chooses for req.
ContentTypeOf(req) ==
    IF req.ContentType \in FormTypes
    THEN <<"application/x-www-form-urlencoded">> ELSE <<"application/json">>

\* C27: executing a request leaves the environment's headers as the test file
\* gives them, placeholders kept and no Content-Type among them, and every
\* request is sent with the file's headers substituted from the variables
\* current at its call, plus its own Content-Type.
C27_EnvHeadersAreUnchanged ==
    /\ headers = FileHeaders
    /\ "Content-Type" \notin DOMAIN headers
    /\ \A k \in 1..Len(history) :
          LET h == history[k]
              hdr == setRequestHeaders(FileHeaders, h.env)
          IN  Did(h, "execute")
              => h.res.sent.headers = ("Content-Type" :> ContentTypeOf(h.req)) @@ hdr.m

\* A form request that captures a new token, then a JSON request: the second
\* is sent with the new token in its Authorization header and with its own
\* Content-Type, and the environment headers still hold the placeholder.
C27_Witness ==
    /\ Len(history) = 2
    /\ history[1].res.sent.headers["Content-Type"] = <<"application/x-www-form-urlencoded">>
    /\ history[2].res.sent.headers["Content-Type"] = <<"application/json">>
    /\ history[1].res.sent.headers["Authorization"] = <<"B", " ", "s">>
    /\ history[2].res.sent.headers["Authorization"] = <<"B", " ", "t">>
    /\ headers["Authorization"] = <<"B", " ", "{{.token}}">>

\* The label sets a scrape or the counters hold.
ScrapedLabelSets ==
    DOMAIN scrape.total \cup DOMAIN scrape.errors
    \cup DOMAIN requestsProcessed \cup DOMAIN requestErrors

\* Neither counter is ever below what the last scrape has read of it, so the
\* next scrape reads at least as much.
CountersNeverDecrease ==
    \A l \in ScrapedLabelSets :
        /\ Count(scrape.total, l) <= Count(requestsProcessed, l)
        /\ Count(scrape.errors, l) <= Count(requestErrors, l)

\* C29 (as claimed): with the run task and the metrics-serving task
\* interleaved in any way, every scrape reads, for each label set, an errors
\* counter that is at most the requests-total counter, and neither counter
\* decreases from one scrape to the next.
C29_ScrapeSeesErrorsWithinTotal ==
    /\ \A l \in ScrapedLabelSets : Count(scrape.errors, l) <= Count(scrape.total, l)
    /\ CountersNeverDecrease

\* What the code gives: the errors counter a scrape reads is at most one above
\* the requests-total counter, and at most equal to it when the scrape is
\* taken between two iterations of the loop.
ErrorsAtMostOneAhead ==
    \A l \in ScrapedLabelSets :
          /\ Count(scrape.errors, l) <= Count(scrape.total, l) + 1
          /\ Count(requestErrors, l) <= Count(requestsProcessed, l) + Unrecorded(l)

\* A scrape taken between recordError and recordRequest of a failed request:
\* it reads an errors series of 1 for label values that have no requests-total
\* series yet.
ErrorsAheadWitness ==
    /\ scrape.taken
    /\ \E l \in DOMAIN scrape.errors : scrape.errors[l] = 1 /\ l \notin DOMAIN scrape.total

====
